---- MODULE Spec2Model ----
(***************************************************************************)
(* Model of the audio-classification pipeline: the web app's upload       *)
(* endpoint (web-app/app.py) that stores a blob, enqueues a task and      *)
(* inserts a placeholder classification, and the ML worker                *)
(* (machine-learning-client/app/worker.py): main, ensure_model_loaded,    *)
(* process_loop and process_one, run by several worker processes against  *)
(* one shared MongoDB.                                                    *)
(*                                                                         *)
(* Store operations are atomic: a call either takes effect and returns,   *)
(* or raises and leaves the store unchanged.  Durations are milliseconds  *)
(* for the idle sleep (poll_interval, 5.0 s cap) and seconds for the      *)
(* reconnect and model-load backoff.                                      *)
(***************************************************************************)
EXTENDS Integers, FiniteSets, Sequences, TLC

\* ------------------------------------------------------------------ bounds
MaxTasks == 2          \* task ids (one per upload request)
Uploads == 1           \* upload requests arriving when several workers run
SoloUploads == 1       \* the same for a worker running alone
MaxFaults == 1         \* exceptions the environment raises when several workers run
SoloFaults == 2        \* the same for a worker running alone
BatchUploads == 2      \* upload requests arriving in the runs with a backlog
MaxClients == 2        \* MongoClient objects the web app creates
MaxIdleRun == 1        \* consecutive empty polls explored
RunCap == 12           \* the same in the idle-backoff runs; the run counter saturates here

\* --------------------------------------------------------- program constants
IdleTicksCap == 10     \* worker.py:182  min(idle_ticks + 1, 10)
MaxSleepMs == 5000     \* worker.py:183  min(poll_interval * idle_ticks, 5.0)
MaxBackoffS == 10      \* worker.py:237  min(backoff_seconds * 2.0, 10.0)
InitBackoffS == 1      \* worker.py:214  backoff_seconds = 1.0
MaxModelBackoffS == 30 \* worker.py:71   min(backoff * 2.0, 30.0)
FullConfidence == 100  \* worker.py:129  confidence = 1.0, in percent

Workers == {1, 2}
TaskIds == 1..MaxTasks
NoTask == 0

ExcKinds == {"conn", "other"}   \* PyMongoError family / any other Exception
PollIntervals == {1000}                      \* POLL_INTERVAL_SECONDS, in ms (the default)
IdlePollIntervals == {0, 250, 500, 1000, 6000}

Min(a, b) == IF a <= b THEN a ELSE b

VARIABLES
    tasks,        \* db.tasks: per task id, [status, predicted_genre, error_message]
    cls,          \* db.classifications: per task id, [present, classification, confidence]
    blobs,        \* GridFS: per task id, "absent" | "good" | "bad" | "malformed"
    upPc,         \* position of each upload request
    pc,           \* position of each worker process
    cur,          \* task_doc of the process_one call in progress (NoTask if none)
    out,          \* what the model answers for the clip of cur (NoOutput if not asked)
    res,          \* (predicted_label, confidence, predicted_genre) computed for cur
    idle,         \* process_loop's idle_ticks
    run,          \* history: consecutive ticks of this process_loop call that did not work
    lastSleep,    \* history: duration of the last idle sleep of this process_loop call
    prevSleep,    \* history: duration of the idle sleep before it in the run
    backoff,      \* main's backoff_seconds
    client,       \* main's client is not None
    handles,      \* main's database / gridfs_bucket: "none" | "db" | "both"
    loaded,       \* module globals model, label_encoder: "none" | "model" | "both"
    mlBackoff,    \* ensure_model_loaded's backoff
    loadRet,      \* history: what the last ensure_model_loaded call returned
    artifacts,    \* the two joblib files are on the filesystem
    err,          \* the exception caught at the task boundary ("none" if none)
    stop,         \* stop_event
    lastClaim,    \* history: outcome of the find_one_and_update of the call just returned
    lastRet,      \* history: outcome of the process_one call just returned ("none" otherwise)
    claimers,     \* history: workers whose claim returned each task
    clsWrites,    \* history: result writes by workers that matched a classification
    faults,       \* exceptions the environment may still raise in this behaviour
    poll,         \* poll_interval
    runLimit,     \* consecutive empty polls explored in this behaviour
    outputs,      \* answers the loaded model can give in this behaviour
    encoder,      \* the label encoder in the artifact: "ok" | "bad" (inverse_transform raises)
    clips,        \* kinds of audio the requests of this behaviour can carry
    req,          \* what each upload request carries: [part, filename]
    webClient,    \* database.py _client: id of the MongoClient, 0 for None
    webDb,        \* database.py _db: [id, of] the Database object and its client (NoDb for None)
    made,         \* MongoClient objects created so far (ids 1..made)
    dbs,          \* Database objects created so far (ids 1..dbs)
    closed,       \* ids of the MongoClient objects that were closed
    dbRet,        \* history: what the last direct get_database call returned
    stats         \* the last /api/stats response (NoStats before the first)

vars == <<tasks, cls, blobs, upPc, pc, cur, out, res, idle, run, lastSleep, prevSleep,
          backoff, client, handles, loaded, mlBackoff, loadRet, artifacts, err, stop,
          lastClaim, lastRet, claimers, clsWrites, faults, poll, runLimit, outputs,
          encoder, clips, req, webClient, webDb, made, dbs, closed, dbRet, stats>>

storeVars == <<tasks, cls, blobs>>
uploadVars == <<upPc>>
loopVars == <<idle, run, lastSleep, prevSleep>>
mainVars == <<backoff, client, handles>>
modelVars == <<loaded, mlBackoff, loadRet>>
taskVars == <<cur, out, res, err>>
histVars == <<lastClaim, lastRet, claimers, clsWrites>>
envVars == <<poll, runLimit, outputs, encoder, clips, req>>
handleVars == <<webClient, webDb, made, dbs, closed>>
webVars == <<handleVars, dbRet, stats>>

NoResult == [label |-> "none", confidence |-> 0, genre |-> "none"]

\* An answer of the model for one clip: the row predict_proba returns, in
\* percent (NoProba when predict_proba raises), and the index in classes_
\* of what predict returns.
NoProba == <<>>
NoOutput == [proba |-> NoProba, hard |-> 0]
Refusal == [proba |-> NoProba, hard |-> 0 - 1]
DefaultOutputs == {[proba |-> <<80, 20>>, hard |-> 1],
                   [proba |-> <<45, 55>>, hard |-> 2]}
\* Kinds of audio: decodable with a well-formed feature vector, not
\* decodable, decodable with a feature vector that has a non-finite value.
DefaultClips == {"good", "bad"}
AllClips == DefaultClips \cup {"malformed"}

AllOutputs == DefaultOutputs \cup
              {[proba |-> <<50, 50>>, hard |-> 1],
               [proba |-> <<50, 50>>, hard |-> 2],
               [proba |-> NoProba, hard |-> 1],
               [proba |-> NoProba, hard |-> 2]}
NoDoc == [status |-> "absent", predicted_genre |-> "none", error_message |-> "none"]
NoCls == [present |-> FALSE, classification |-> "none", confidence |-> 0]

\* An upload request: whether the form has an "audio" part, and the part's
\* filename as its pieces between dots (<<"">> is the empty filename).
ValidRequest == [part |-> TRUE, filename |-> <<"song", "wav">>]
AllRequests == {ValidRequest,
                [part |-> FALSE, filename |-> <<"">>],
                [part |-> TRUE, filename |-> <<"">>],
                [part |-> TRUE, filename |-> <<"song">>],
                [part |-> TRUE, filename |-> <<"notes", "txt">>],
                [part |-> TRUE, filename |-> <<"song", "wav", "zip">>],
                [part |-> TRUE, filename |-> <<"live", "set", "MP3">>]}

NoDb == [id |-> 0, of |-> 0]
NoStats == [total |-> 0 - 1, rock |-> 0, hiphop |-> 0,
            rock_percentage |-> 0, hiphop_percentage |-> 0]

\* The state when the worker processes `started` begin main (any other
\* worker was stopped before it began), with empty collections, `uploads`
\* requests to come, `budget` exceptions the environment may raise, the poll
\* interval among `polls`, empty polls explored up to runs of `limit`, a
\* model that answers among `answers`, a label encoder among `encoders` and
\* audio of the kinds `kinds`.
InitWith(started, uploads, budget, polls, limit, answers, encoders, kinds, requests) ==
    /\ tasks = [t \in TaskIds |-> NoDoc]
    /\ cls = [t \in TaskIds |-> NoCls]
    /\ blobs = [t \in TaskIds |-> "absent"]
    /\ upPc = [t \in TaskIds |-> IF t <= uploads THEN "new" ELSE "unused"]
    /\ pc = [w \in Workers |-> IF w \in started THEN "main" ELSE "exited"]
    /\ cur = [w \in Workers |-> NoTask]
    /\ out = [w \in Workers |-> NoOutput]
    /\ res = [w \in Workers |-> NoResult]
    /\ idle = [w \in Workers |-> 0]
    /\ run = [w \in Workers |-> 0]
    /\ lastSleep = [w \in Workers |-> 0]
    /\ prevSleep = [w \in Workers |-> 0]
    /\ backoff = [w \in Workers |-> InitBackoffS]
    /\ client = [w \in Workers |-> FALSE]
    /\ handles = [w \in Workers |-> "none"]
    /\ loaded = [w \in Workers |-> "none"]
    /\ mlBackoff = [w \in Workers |-> InitBackoffS]
    /\ loadRet = [w \in Workers |-> "pending"]
    /\ artifacts = FALSE
    /\ err = [w \in Workers |-> "none"]
    /\ stop = [w \in Workers |-> w \notin started]
    /\ lastClaim = [w \in Workers |-> "none"]
    /\ lastRet = [w \in Workers |-> "none"]
    /\ claimers = [t \in TaskIds |-> {}]
    /\ clsWrites = [t \in TaskIds |-> 0]
    /\ faults = budget
    /\ poll \in polls
    /\ runLimit = limit
    /\ outputs = answers
    /\ encoder \in encoders
    /\ clips = kinds
    /\ req \in [TaskIds -> requests]
    /\ \A t \in TaskIds : t > uploads => req[t] = ValidRequest
    /\ webClient = 0
    /\ webDb = NoDb
    /\ made = 0
    /\ dbs = 0
    /\ closed = {}
    /\ dbRet = 0
    /\ stats = NoStats

\* Two workers started together.
Init == InitWith(Workers, Uploads, MaxFaults, PollIntervals, MaxIdleRun, DefaultOutputs,
                 {"ok"}, DefaultClips, {ValidRequest})

\* ------------------------------------------------------- database.py handles
\* Mutant: get_database without its cache test.
DbMissingAlways(db) == TRUE

\* get_database's test (database.py:41): _db is None.
DbMissing(db) == db = NoDb

\* get_client (database.py:21-29): the cached client, or a new one.
CanGetClient == webClient # 0 \/ made < MaxClients
ClientAfterGet == IF webClient = 0 THEN made + 1 ELSE webClient
MadeAfterGet == IF webClient = 0 THEN made + 1 ELSE made

\* get_database (database.py:41-45): the cached Database, or a new one
\* taken from get_client's client.
CanGetDatabase == ~DbMissing(webDb) \/ CanGetClient
DbAfterGet == IF DbMissing(webDb) THEN [id |-> dbs + 1, of |-> ClientAfterGet] ELSE webDb

EnsureDatabase ==
    /\ CanGetDatabase
    /\ webDb' = DbAfterGet
    /\ IF DbMissing(webDb)
       THEN /\ webClient' = ClientAfterGet
            /\ made' = MadeAfterGet
            /\ dbs' = dbs + 1
       ELSE UNCHANGED <<webClient, made, dbs>>
    /\ UNCHANGED closed

\* A call of get_client from outside the request handlers.
GetClient ==
    /\ CanGetClient
    /\ webClient' = ClientAfterGet
    /\ made' = MadeAfterGet
    /\ UNCHANGED <<storeVars, uploadVars, pc, loopVars, mainVars, modelVars, artifacts,
                   taskVars, stop, histVars, faults, envVars, webDb, dbs, closed, dbRet,
                   stats>>

\* A call of get_database from outside the request handlers.
GetDatabase ==
    /\ EnsureDatabase
    /\ dbRet' = DbAfterGet.id
    /\ UNCHANGED <<storeVars, uploadVars, pc, loopVars, mainVars, modelVars, artifacts,
                   taskVars, stop, histVars, faults, envVars, stats>>

\* close_database (database.py:52-55).
CloseDatabase ==
    /\ IF webClient # 0
       THEN /\ closed' = closed \cup {webClient}
            /\ webClient' = 0
            /\ webDb' = NoDb
       ELSE UNCHANGED <<webClient, webDb, closed>>
    /\ UNCHANGED <<storeVars, uploadVars, pc, loopVars, mainVars, modelVars, artifacts,
                   taskVars, stop, histVars, faults, envVars, made, dbs, dbRet, stats>>

\* ------------------------------------------------------------ upload endpoint
\* ALLOWED_EXTENSIONS (app.py:19).
AllowedExtensions == {"wav", "mp3", "m4a", "ogg", "flac"}

\* str.lower on the extensions that occur.
Lower(x) == CASE x = "MP3" -> "mp3" [] x = "WAV" -> "wav" [] OTHER -> x

\* Mutant: allowed_file that lets every name through.
AllowedFileAny(f) == TRUE

\* allowed_file (app.py:24): "." in filename and
\* filename.rsplit(".", 1)[1].lower() in ALLOWED_EXTENSIONS.
AllowedFile(f) == Len(f) >= 2 /\ Lower(f[Len(f)]) \in AllowedExtensions

\* The three 400 checks of upload_audio / record_audio (app.py:173-181).
Accepts(r) == r.part /\ r.filename # <<"">> /\ AllowedFile(r.filename)

\* A request that fails one of the checks is answered 400 before the try
\* block (app.py:174, 178, 181).
UploadReject(t) ==
    /\ upPc[t] = "new"
    /\ ~Accepts(req[t])
    /\ upPc' = [upPc EXCEPT ![t] = "rejected"]
    /\ UNCHANGED <<storeVars, pc, loopVars, mainVars, modelVars, artifacts, taskVars,
                   stop, histVars, faults, envVars, webVars>>

\* app.py upload_audio / record_audio, after the 400 checks: get_database,
\* GridFS put, then tasks.insert_one, then classifications.insert_one; any
\* exception ends the request with a 500 and undoes nothing.
Placeholder == [present |-> TRUE, classification |-> "pending", confidence |-> 0]
PendingDoc == [status |-> "pending", predicted_genre |-> "none", error_message |-> "none"]

\* The blob put and the task insert (app.py:183-203).  Nothing refers to the
\* blob before its task exists, so the two writes are one step, taken at the
\* insert; a put that raises stores nothing, an insert that raises leaves
\* the blob behind.
UploadEnqueue(t) ==
    /\ upPc[t] = "new"
    /\ Accepts(req[t])
    /\ EnsureDatabase
    /\ \E clip \in clips, outcome \in {"ok", "put_raises", "insert_raises"} :
         CASE outcome = "ok" ->
                /\ blobs' = [blobs EXCEPT ![t] = clip]
                /\ tasks' = [tasks EXCEPT ![t] = PendingDoc]
                /\ upPc' = [upPc EXCEPT ![t] = "task"]
                /\ UNCHANGED faults
           [] outcome = "put_raises" ->
                /\ clip = "good"
                /\ faults > 0
                /\ faults' = faults - 1
                /\ upPc' = [upPc EXCEPT ![t] = "closed"]
                /\ UNCHANGED <<blobs, tasks>>
           [] outcome = "insert_raises" ->
                /\ faults > 0
                /\ faults' = faults - 1
                /\ blobs' = [blobs EXCEPT ![t] = clip]
                /\ upPc' = [upPc EXCEPT ![t] = "closed"]
                /\ UNCHANGED tasks
    /\ UNCHANGED <<cls, pc, loopVars, mainVars, modelVars, artifacts, taskVars,
                   stop, histVars, envVars, dbRet, stats>>

\* The placeholder insert and the response (app.py:205-225).
UploadInsertClassification(t) ==
    /\ upPc[t] = "task"
    /\ \E raises \in BOOLEAN :
         IF raises
         THEN /\ faults > 0
              /\ faults' = faults - 1
              /\ UNCHANGED cls
         ELSE /\ cls' = [cls EXCEPT ![t] = Placeholder]
              /\ UNCHANGED faults
    /\ upPc' = [upPc EXCEPT ![t] = "closed"]
    /\ UNCHANGED <<tasks, blobs, pc, loopVars, mainVars, modelVars, artifacts, taskVars,
                   stop, histVars, envVars, webVars>>

\* -------------------------------------------------------------------- worker
\* Mutant: main without its second except clause.
MainCatchesStoreOnly(kind) == kind = "conn"

\* main's two except clauses (worker.py:232-244): both sleep, double
\* backoff_seconds up to 10 and continue; only the PyMongoError clause
\* discards the client.
MainCatches(kind) == kind \in {"conn", "other"}

NextBackoff(b) == Min(b * 2, MaxBackoffS)

MainHandlerFrom(w, kind, clientNow) ==
    IF MainCatches(kind)
    THEN /\ pc' = [pc EXCEPT ![w] = "main"]
         /\ backoff' = [backoff EXCEPT ![w] = NextBackoff(backoff[w])]
         /\ client' = [client EXCEPT ![w] = IF kind = "conn" THEN FALSE ELSE clientNow]
    ELSE /\ pc' = [pc EXCEPT ![w] = "crashed"]
         /\ backoff' = backoff
         /\ client' = [client EXCEPT ![w] = clientNow]

MainHandler(w, kind) == MainHandlerFrom(w, kind, client[w])

\* process_loop's idle branch (worker.py:182-183).
NextIdleTicks(i) == Min(i + 1, IdleTicksCap)

\* Mutant: the sleep without its 5.0 s cap.
SleepMsUncapped(p, i) == p * i

SleepMs(p, i) == Min(p * i, MaxSleepMs)

IdleTick(w) ==
    /\ idle' = [idle EXCEPT ![w] = NextIdleTicks(idle[w])]
    /\ run' = [run EXCEPT ![w] = Min(run[w] + 1, RunCap)]
    /\ prevSleep' = [prevSleep EXCEPT ![w] = IF run[w] = 0 THEN 0 ELSE lastSleep[w]]
    /\ lastSleep' = [lastSleep EXCEPT ![w] = SleepMs(poll, NextIdleTicks(idle[w]))]
    /\ pc' = [pc EXCEPT ![w] = "sleep"]

\* process_loop is entered with idle_ticks = 0 (worker.py:175).
EnterLoop(w) ==
    /\ idle' = [idle EXCEPT ![w] = 0]
    /\ run' = [run EXCEPT ![w] = 0]
    /\ lastSleep' = [lastSleep EXCEPT ![w] = 0]
    /\ prevSleep' = [prevSleep EXCEPT ![w] = 0]

\* The history of the call just returned is dropped at the worker's next step.
ForgetCall(w) ==
    /\ lastClaim' = [lastClaim EXCEPT ![w] = "none"]
    /\ lastRet' = [lastRet EXCEPT ![w] = "none"]

\* The idle sleep is time.sleep (worker.py:183), not a wait on stop_event:
\* a handled signal that raises nothing does not shorten it, the call
\* resumes and returns when the whole interval has passed.
SleepEndsOnStop == FALSE

\* _handle_signal (worker.py:201-203) sets the flag and returns into whatever
\* the process was doing.
Signal(w) ==
    /\ pc[w] # "exited"
    /\ ~stop[w]
    /\ stop' = [stop EXCEPT ![w] = TRUE]
    /\ pc' = [pc EXCEPT ![w] = IF @ = "sleep" /\ SleepEndsOnStop THEN "loop" ELSE @]
    /\ UNCHANGED <<storeVars, uploadVars, loopVars, mainVars, modelVars, artifacts,
                   taskVars, histVars, faults, envVars, webVars>>

\* main returning (worker.py:246): the process is gone and its variables
\* with it.
Exit(w) ==
    /\ pc' = [pc EXCEPT ![w] = "exited"]
    /\ EnterLoop(w)
    /\ backoff' = [backoff EXCEPT ![w] = InitBackoffS]
    /\ client' = [client EXCEPT ![w] = FALSE]
    /\ handles' = [handles EXCEPT ![w] = "none"]
    /\ loaded' = [loaded EXCEPT ![w] = "none"]
    /\ loadRet' = [loadRet EXCEPT ![w] = "pending"]
    /\ ForgetCall(w)
    /\ UNCHANGED <<storeVars, uploadVars, mlBackoff, artifacts, taskVars, stop, claimers,
                   clsWrites, faults, envVars, webVars>>

\* main's while test finding the stop flag set (worker.py:215).
MainExit(w) ==
    /\ pc[w] = "main"
    /\ stop[w]
    /\ Exit(w)

\* ensure_model_loaded's backoff after a failed load (worker.py:71).
NextModelBackoff(b) == Min(b * 2, MaxModelBackoffS)

\* Mutants of the while test: one that is satisfied by the model alone, and
\* one that loads on every call.
StillLoadingUntilModel(l) == l = "none"

StillLoadingAlways(l) == TRUE

\* ensure_model_loaded's while test (worker.py:62): model is None or
\* label_encoder is None.
StillLoading(l) == l # "both"

\* What ensure_model_loaded hands to its caller (worker.py:54, 67): the
\* function is declared -> None, leaves by a bare return or by the end of
\* its loop, and keeps the loaded objects in the module globals.
LoadResult(l) == "None"

\* ensure_model_loaded returning into main, which drops the returned value,
\* resets backoff_seconds and calls process_loop (worker.py:226-230).
ModelReady(w, now) ==
    /\ loadRet' = [loadRet EXCEPT ![w] = LoadResult(now)]
    /\ backoff' = [backoff EXCEPT ![w] = InitBackoffS]
    /\ pc' = [pc EXCEPT ![w] = "loop"]
    /\ EnterLoop(w)
    /\ mlBackoff' = [mlBackoff EXCEPT ![w] = InitBackoffS]

\* The except branch of ensure_model_loaded (worker.py:68-71) with the
\* globals as the failed pass left them: sleep, double the backoff, and
\* back to the while test.
LoadFailed(w, now) ==
    /\ loaded' = [loaded EXCEPT ![w] = now]
    /\ IF StillLoading(now)
       THEN /\ mlBackoff' = [mlBackoff EXCEPT ![w] = NextModelBackoff(mlBackoff[w])]
            /\ UNCHANGED <<backoff, pc, loopVars, loadRet>>
       ELSE ModelReady(w, now)

\* main with client None (worker.py:217-227): create, ping, assign the
\* handles, then ensure_model_loaded; an exception at any call goes to the
\* except clauses with whatever was assigned before it.
Connect(w) ==
    /\ pc[w] = "main"
    /\ ~stop[w]
    /\ ~client[w]
    /\ \E outcome \in {"ok", "ping_raises", "gridfs_raises"}, kind \in ExcKinds :
         CASE outcome = "ok" ->
                /\ kind = "conn"
                /\ client' = [client EXCEPT ![w] = TRUE]
                /\ handles' = [handles EXCEPT ![w] = "both"]
                /\ IF StillLoading(loaded[w])
                   THEN /\ pc' = [pc EXCEPT ![w] = "loading"]
                        /\ mlBackoff' = [mlBackoff EXCEPT ![w] = InitBackoffS]
                        /\ UNCHANGED <<backoff, loopVars, loadRet>>
                   ELSE ModelReady(w, loaded[w])
                /\ UNCHANGED faults
           [] outcome = "ping_raises" ->
                /\ faults > 0
                /\ faults' = faults - 1
                /\ MainHandler(w, kind)
                /\ UNCHANGED <<handles, mlBackoff, loadRet, loopVars>>
           [] outcome = "gridfs_raises" ->
                /\ faults > 0
                /\ faults' = faults - 1
                /\ handles' = [handles EXCEPT ![w] = "db"]
                /\ MainHandlerFrom(w, kind, TRUE)
                /\ UNCHANGED <<mlBackoff, loadRet, loopVars>>
    /\ ForgetCall(w)
    /\ UNCHANGED <<storeVars, uploadVars, loaded, artifacts, taskVars, stop, claimers,
                   clsWrites, envVars, webVars>>

\* main with a client already set (worker.py:217, 230): straight into
\* process_loop with the handles as they are.
Reenter(w) ==
    /\ pc[w] = "main"
    /\ ~stop[w]
    /\ client[w]
    /\ pc' = [pc EXCEPT ![w] = "loop"]
    /\ EnterLoop(w)
    /\ UNCHANGED <<storeVars, uploadVars, mainVars, modelVars, artifacts, taskVars, stop,
                   claimers, clsWrites, faults, envVars, webVars>>
    /\ ForgetCall(w)

\* The deployment puts the joblib files in place.
MountArtifacts ==
    /\ ~artifacts
    /\ artifacts' = TRUE
    /\ UNCHANGED <<storeVars, uploadVars, pc, loopVars, mainVars, modelVars, taskVars,
                   stop, histVars, faults, envVars, webVars>>

\* ensure_model_loaded (worker.py:62-71), one pass of its while loop: both
\* joblib.load calls and the return, or the except branch.  Without the
\* files the first load raises; with them a load can still raise (here the
\* second one, leaving model set and label_encoder None).
LoadModel(w) ==
    /\ pc[w] = "loading"
    /\ \E outcome \in {"loads", "model_raises", "encoder_raises"} :
         CASE outcome = "loads" ->
                /\ artifacts
                /\ loaded' = [loaded EXCEPT ![w] = "both"]
                /\ ModelReady(w, "both")
                /\ UNCHANGED faults
           [] outcome = "model_raises" ->
                /\ ~artifacts
                /\ LoadFailed(w, loaded[w])
                /\ UNCHANGED faults
           [] outcome = "encoder_raises" ->
                /\ artifacts
                /\ faults > 0
                /\ faults' = faults - 1
                /\ LoadFailed(w, "model")
    /\ UNCHANGED <<storeVars, uploadVars, client, handles, artifacts, taskVars, stop,
                   histVars, envVars, webVars>>

\* process_loop's while test finding the stop flag set (worker.py:176), then
\* main's (worker.py:215, 246).
LoopExit(w) ==
    /\ pc[w] = "loop"
    /\ stop[w]
    /\ Exit(w)

\* time.sleep returning, its interval over (worker.py:183).
Wake(w) ==
    /\ pc[w] = "sleep"
    /\ pc' = [pc EXCEPT ![w] = "loop"]
    /\ UNCHANGED <<storeVars, uploadVars, loopVars, mainVars, modelVars, artifacts,
                   taskVars, stop, claimers, clsWrites, faults, envVars, webVars>>
    /\ ForgetCall(w)

\* Mutants of the claim: a filter that also matches tasks being processed, a
\* filter that retries failed tasks, an upsert, and a claim left unguarded.
ClaimFilterOpen(t) == tasks[t].status \in {"pending", "processing"}

ClaimFilterRetry(t) == tasks[t].status \in {"pending", "error"}

NoMatchUpsert(ts) ==
    IF \E t \in TaskIds : ts[t].status = "absent"
    THEN LET t == CHOOSE u \in TaskIds : ts[u].status = "absent"
         IN  [ts EXCEPT ![t].status = "processing"]
    ELSE ts

ClaimCatchesNothing == FALSE

\* The filter of find_one_and_update (worker.py:103).
ClaimFilter(t) == tasks[t].status = "pending"

\* find_one_and_update without upsert (worker.py:102-104): with no match it
\* returns None and leaves the collection as it is.
NoMatch(ts) == ts

\* The except clause around the claim (worker.py:105-107).
ClaimCatches == TRUE

\* One tick of process_loop up to the claim (worker.py:176-177, 99-110, and
\* 182-183 when process_one returns False at once).
Claim(w) ==
    /\ pc[w] = "loop"
    /\ ~stop[w]
    /\ \E outcome \in {"raises", "finds"} :
         IF outcome = "raises"
         THEN /\ faults > 0
              /\ run[w] < runLimit
              /\ faults' = faults - 1
              /\ lastClaim' = [lastClaim EXCEPT ![w] = "raised"]
              /\ IF ClaimCatches
                 THEN /\ lastRet' = [lastRet EXCEPT ![w] = "false"]
                      /\ IdleTick(w)
                      /\ UNCHANGED <<backoff, client>>
                 ELSE /\ lastRet' = [lastRet EXCEPT ![w] = "raised"]
                      /\ MainHandler(w, "conn")
                      /\ UNCHANGED loopVars
              /\ UNCHANGED <<tasks, cur, claimers>>
         ELSE /\ IF \E t \in TaskIds : ClaimFilter(t)
                 THEN \E t \in {u \in TaskIds : ClaimFilter(u)} :
                        /\ tasks' = [tasks EXCEPT ![t].status = "processing"]
                        /\ cur' = [cur EXCEPT ![w] = t]
                        /\ claimers' = [claimers EXCEPT ![t] = @ \cup {w}]
                        /\ lastClaim' = [lastClaim EXCEPT ![w] = "task"]
                        /\ lastRet' = [lastRet EXCEPT ![w] = "none"]
                        /\ pc' = [pc EXCEPT ![w] = "work"]
                        /\ UNCHANGED loopVars
                 ELSE /\ run[w] < runLimit
                      /\ lastClaim' = [lastClaim EXCEPT ![w] = "empty"]
                      /\ lastRet' = [lastRet EXCEPT ![w] = "false"]
                      /\ tasks' = NoMatch(tasks)
                      /\ IdleTick(w)
                      /\ UNCHANGED <<cur, claimers>>
              /\ UNCHANGED <<faults, backoff, client>>
    /\ UNCHANGED <<cls, blobs, uploadVars, handles, modelVars, artifacts, out, res, err,
                   stop, clsWrites, envVars, webVars>>

\* model.classes_ (worker.py:125): the encoded classes the pipeline
\* predicts, and the names label_encoder.inverse_transform gives them
\* (worker.py:133).
Classes == <<"0", "1">>
Genres == <<"rock", "hiphop">>

InverseTransform(token) == Genres[CHOOSE i \in 1..Len(Classes) : Classes[i] = token]

\* Mutant: the last maximum instead of the first.
ArgMaxLast(p) ==
    CHOOSE i \in 1..Len(p) :
        /\ \A j \in 1..Len(p) : p[j] <= p[i]
        /\ \A j \in (i + 1)..Len(p) : p[j] < p[i]

\* np.argmax (worker.py:124): the index of the first maximum.
ArgMax(p) ==
    CHOOSE i \in 1..Len(p) :
        /\ \A j \in 1..Len(p) : p[j] <= p[i]
        /\ \A j \in 1..(i - 1) : p[j] < p[i]

\* The decision of process_one (worker.py:122-129): the arg-max class and
\* its probability, or, when predict_proba raises, the hard prediction with
\* confidence 1.0.
Decide(o) ==
    IF o.proba # NoProba
    THEN [label |-> Classes[ArgMax(o.proba)], confidence |-> o.proba[ArgMax(o.proba)]]
    ELSE [label |-> Classes[o.hard], confidence |-> FullConfidence]

\* Mutant: a decoding failure that is not caught.
DecodeCaughtNot == FALSE

\* The except clause around inverse_transform (worker.py:132-136).
DecodeCaught == TRUE

\* The label of process_one (worker.py:131-136): the decoded class, or the
\* raw predicted token when decoding raised.
PredictedGenre(token, decodes) == IF decodes THEN InverseTransform(token) ELSE token

\* The feature vector goes from extract_features_audio straight to
\* predict_proba (worker.py:118-123): process_one looks neither at its
\* length nor at its values.
ValidatesFeatures == FALSE

\* classifications.update_one without upsert (worker.py:139-148): it changes
\* the document with this task_id if there is one, and nothing otherwise.
UpdateClassification(c, r) ==
    IF c.present
    THEN [present |-> TRUE, classification |-> r.genre, confidence |-> r.confidence]
    ELSE c

\* process_one from predict_proba to the result write (worker.py:122-148)
\* with the model answering o.  A model that checks its input raises on a
\* malformed vector in predict_proba and again in predict (Refusal), which
\* ends at the task boundary; one that does not check answers it like any
\* other vector.
Score(w, o, decodes) ==
    IF o = Refusal
    THEN /\ out' = [out EXCEPT ![w] = o]
         /\ err' = [err EXCEPT ![w] = "ValueError"]
         /\ pc' = [pc EXCEPT ![w] = "fail"]
         /\ UNCHANGED <<res, cls, clsWrites>>
    ELSE IF ~decodes /\ ~DecodeCaught
    THEN /\ out' = [out EXCEPT ![w] = o]
         /\ err' = [err EXCEPT ![w] = "LabelError"]
         /\ pc' = [pc EXCEPT ![w] = "fail"]
         /\ UNCHANGED <<res, cls, clsWrites>>
    ELSE LET r == [label |-> Decide(o).label, confidence |-> Decide(o).confidence,
                   genre |-> PredictedGenre(Decide(o).label, decodes)]
         IN  /\ out' = [out EXCEPT ![w] = o]
             /\ res' = [res EXCEPT ![w] = r]
             /\ cls' = [cls EXCEPT ![cur[w]] = UpdateClassification(@, r)]
             /\ clsWrites' = [clsWrites EXCEPT ![cur[w]] =
                                 IF cls[cur[w]].present THEN @ + 1 ELSE @]
             /\ pc' = [pc EXCEPT ![w] = "finish"]
             /\ UNCHANGED err

\* process_one from the blob read to the result write (worker.py:112-148).
\* A None gridfs_bucket or model raises AttributeError; an undecodable blob
\* raises in soundfile; a None label_encoder is caught by the inner except;
\* the blob read and the result write can raise a store error.  Everything
\* before the result write is local to the worker (the blob of a task does
\* not change), so the step is taken at the write.
Classify(w) ==
    /\ pc[w] = "work"
    /\ \E outcome \in {"raises", "runs"} :
         IF outcome = "raises"
         THEN /\ faults > 0
              /\ faults' = faults - 1
              /\ err' = [err EXCEPT ![w] = "StoreError"]
              /\ pc' = [pc EXCEPT ![w] = "fail"]
              /\ UNCHANGED <<out, res, cls, clsWrites>>
         ELSE /\ UNCHANGED faults
              /\ IF handles[w] # "both" \/ loaded[w] = "none"
                 THEN /\ err' = [err EXCEPT ![w] = "AttributeError"]
                      /\ pc' = [pc EXCEPT ![w] = "fail"]
                      /\ UNCHANGED <<out, res, cls, clsWrites>>
                 ELSE IF blobs[cur[w]] = "bad"
                 THEN /\ err' = [err EXCEPT ![w] = "DecodeError"]
                      /\ pc' = [pc EXCEPT ![w] = "fail"]
                      /\ UNCHANGED <<out, res, cls, clsWrites>>
                 ELSE IF blobs[cur[w]] = "malformed" /\ ValidatesFeatures
                 THEN /\ err' = [err EXCEPT ![w] = "InvalidFeatureVector"]
                      /\ pc' = [pc EXCEPT ![w] = "fail"]
                      /\ UNCHANGED <<out, res, cls, clsWrites>>
                 ELSE \E o \in outputs \cup {Refusal} :
                        /\ o = Refusal => blobs[cur[w]] = "malformed"
                        /\ Score(w, o, loaded[w] = "both" /\ encoder = "ok")
    /\ UNCHANGED <<tasks, blobs, uploadVars, cur, loopVars, mainVars, modelVars, artifacts,
                   stop, lastClaim, lastRet, claimers, envVars, webVars>>

\* Mutant: status writes with an empty filter, which update_one applies to
\* the first document of the collection.
TargetFirst(w) == CHOOSE t \in TaskIds : \A u \in TaskIds : tasks[u] # NoDoc => t <= u

\* The filter of the done and error writes (worker.py:152, 161):
\* {"_id": task_doc["_id"]}.
Target(w) == cur[w]

\* Mutant: a success that leaves idle_ticks as it was.
KeepIdleTicks(i) == i

\* process_loop after a worked tick (worker.py:178-180).
ResetIdleTicks(i) == 0

\* Mutant: a loop that takes every returned call as worked.
WorkedAlways(ret) == TRUE

\* process_loop's test of process_one's return value (worker.py:177-178).
Worked(ret) == ret = "true"

\* The worked branch (worker.py:179-180): idle_ticks reset, no sleep, back
\* to the while test.  The idle run is over; the duration of its last sleep
\* is kept as history until the next sleep.
AfterWorked(w) ==
    /\ pc' = [pc EXCEPT ![w] = "loop"]
    /\ idle' = [idle EXCEPT ![w] = ResetIdleTicks(idle[w])]
    /\ run' = [run EXCEPT ![w] = 0]
    /\ prevSleep' = [prevSleep EXCEPT ![w] = 0]
    /\ lastSleep' = lastSleep

\* tasks.update_one to done, return True, and process_loop's reset of
\* idle_ticks before its next test of the stop flag (worker.py:151-157,
\* 178-180).
MarkDone(w) ==
    /\ pc[w] = "finish"
    /\ \E raises \in BOOLEAN :
         IF raises
         THEN /\ faults > 0
              /\ faults' = faults - 1
              /\ err' = [err EXCEPT ![w] = "store"]
              /\ pc' = [pc EXCEPT ![w] = "fail"]
              /\ UNCHANGED <<tasks, cur, out, res, lastRet, loopVars>>
         ELSE /\ tasks' = [tasks EXCEPT ![Target(w)].status = "done",
                                        ![Target(w)].predicted_genre = res[w].genre]
              /\ lastRet' = [lastRet EXCEPT ![w] = "true"]
              /\ cur' = [cur EXCEPT ![w] = NoTask]
              /\ out' = [out EXCEPT ![w] = NoOutput]
              /\ res' = [res EXCEPT ![w] = NoResult]
              /\ AfterWorked(w)
              /\ UNCHANGED <<faults, err>>
    /\ UNCHANGED <<cls, blobs, uploadVars, mainVars, modelVars, artifacts, stop,
                   lastClaim, claimers, clsWrites, envVars, webVars>>

\* Mutant: a failed task reported as worked.
ErrorReturnTrue == "true"

\* What process_one returns after the error write (worker.py:165).
ErrorReturn == "false"

\* The except clause at the task boundary (worker.py:159-165): the error
\* write is not itself guarded, so when it raises the exception leaves
\* process_one and process_loop and reaches main's except clauses.  When it
\* succeeds process_loop goes on from the value returned (worker.py:178-183).
MarkError(w) ==
    /\ pc[w] = "fail"
    /\ \E outcome \in {"writes", "raises"}, kind \in ExcKinds :
         IF outcome = "raises"
         THEN /\ faults > 0
              /\ faults' = faults - 1
              /\ lastRet' = [lastRet EXCEPT ![w] = "raised"]
              /\ MainHandler(w, kind)
              /\ UNCHANGED <<tasks, loopVars>>
         ELSE /\ kind = "conn"
              /\ tasks' = [tasks EXCEPT ![Target(w)].status = "error",
                                        ![Target(w)].error_message = err[w]]
              /\ lastRet' = [lastRet EXCEPT ![w] = ErrorReturn]
              /\ IF Worked(ErrorReturn) THEN AfterWorked(w) ELSE IdleTick(w)
              /\ UNCHANGED <<faults, backoff, client>>
    /\ cur' = [cur EXCEPT ![w] = NoTask]
    /\ out' = [out EXCEPT ![w] = NoOutput]
    /\ res' = [res EXCEPT ![w] = NoResult]
    /\ err' = [err EXCEPT ![w] = "none"]
    /\ UNCHANGED <<cls, blobs, uploadVars, handles, modelVars, artifacts, stop,
                   lastClaim, claimers, clsWrites, envVars, webVars>>

Next ==
    \/ \E t \in TaskIds : UploadEnqueue(t)
    \/ \E t \in TaskIds : UploadInsertClassification(t)
    \/ MountArtifacts
    \/ \E w \in Workers : Signal(w)
    \/ \E w \in Workers : MainExit(w)
    \/ \E w \in Workers : Connect(w)
    \/ \E w \in Workers : Reenter(w)
    \/ \E w \in Workers : LoadModel(w)
    \/ \E w \in Workers : LoopExit(w)
    \/ \E w \in Workers : Wake(w)
    \/ \E w \in Workers : Claim(w)
    \/ \E w \in Workers : Classify(w)
    \/ \E w \in Workers : MarkDone(w)
    \/ \E w \in Workers : MarkError(w)

Spec == Init /\ [][Next]_vars

\* One worker running alone, with a larger budget of exceptions.
InitSolo == InitWith({1}, SoloUploads, SoloFaults, PollIntervals, MaxIdleRun,
                     DefaultOutputs, {"ok"}, DefaultClips, {ValidRequest})

SpecSolo == InitSolo /\ [][Next]_vars

\* One worker running alone, with the poll intervals and the long idle runs
\* that the idle backoff arithmetic needs.
InitIdle == InitWith({1}, Uploads, MaxFaults, IdlePollIntervals, RunCap, DefaultOutputs,
                     {"ok"}, DefaultClips, {ValidRequest})

SpecIdle == InitIdle /\ [][Next]_vars

\* One worker running alone with a model that can give every kind of
\* answer (clear ones, ties, and none when predict_proba raises), a label
\* encoder that may be unable to decode, and every kind of audio.
InitDecide == InitWith({1}, Uploads, MaxFaults, PollIntervals, MaxIdleRun, AllOutputs,
                       {"ok", "bad"}, AllClips, {ValidRequest})

SpecDecide == InitDecide /\ [][Next]_vars

\* ------------------------------------------------------------------ /api/stats
\* count_documents over db.classifications (app.py:92-94).
CountAll(c) == Cardinality({t \in TaskIds : c[t].present})
CountOf(c, g) == Cardinality({t \in TaskIds : c[t].present /\ c[t].classification = g})

\* round(count / total * 100, 2) if total > 0 else 0 (app.py:104-107), in
\* hundredths of a percent.  No quotient of the counts that occur here lies
\* half-way between two hundredths, so the rounding mode plays no part.
Percentage(count, total) ==
    IF total > 0 THEN (2 * count * 10000 + total) \div (2 * total) ELSE 0

StatsResponse(total, rock, hiphop) ==
    [total |-> total, rock |-> rock, hiphop |-> hiphop,
     rock_percentage |-> Percentage(rock, total),
     hiphop_percentage |-> Percentage(hiphop, total)]

\* api_stats (app.py:88-109): the three counts, or zeros when the store
\* raises.
ApiStats ==
    /\ EnsureDatabase
    /\ \E raises \in BOOLEAN :
         IF raises
         THEN /\ faults > 0
              /\ faults' = faults - 1
              /\ stats' = StatsResponse(0, 0, 0)
         ELSE /\ stats' = StatsResponse(CountAll(cls), CountOf(cls, "rock"),
                                       CountOf(cls, "hiphop"))
              /\ UNCHANGED faults
    /\ UNCHANGED <<storeVars, uploadVars, pc, loopVars, mainVars, modelVars, artifacts,
                   taskVars, stop, histVars, envVars, dbRet>>

\* The pipeline with a client polling /api/stats.
NextStats ==
    \/ Next
    \/ ApiStats

InitStats == InitWith({1}, Uploads, MaxFaults, PollIntervals, MaxIdleRun, DefaultOutputs,
                      {"ok"}, DefaultClips, {ValidRequest})

SpecStats == InitStats /\ [][NextStats]_vars

\* The web app alone, no worker running: requests of every kind, and calls
\* into database.py.
NextWeb ==
    \/ \E t \in TaskIds : UploadReject(t)
    \/ \E t \in TaskIds : UploadEnqueue(t)
    \/ \E t \in TaskIds : UploadInsertClassification(t)
    \/ ApiStats
    \/ GetClient
    \/ GetDatabase
    \/ CloseDatabase

InitWeb == InitWith({}, Uploads, MaxFaults, PollIntervals, MaxIdleRun, DefaultOutputs,
                    {"ok"}, DefaultClips, AllRequests)

SpecWeb == InitWeb /\ [][NextWeb]_vars

\* A step of the worker process itself, as opposed to a step of its
\* environment (requests, signals, the deployment mounting the artifacts).
WorkerStep(w) ==
    \/ MainExit(w) \/ Connect(w) \/ Reenter(w) \/ LoadModel(w) \/ LoopExit(w)
    \/ Wake(w) \/ Claim(w) \/ Classify(w) \/ MarkDone(w) \/ MarkError(w)

\* The worker running alone and never starved: a running process goes on
\* executing, every sleep and every store call returns.  Nothing is assumed
\* of the environment.
SpecSoloFair == SpecSolo /\ \A w \in Workers : WF_vars(WorkerStep(w))

\* One worker running alone with a backlog: several requests, so that tasks
\* can be waiting while the worker deals with one of them.
InitBatch == InitWith({1}, BatchUploads, MaxFaults, IdlePollIntervals, MaxIdleRun,
                      DefaultOutputs, {"ok"}, DefaultClips, {ValidRequest})

SpecBatch == InitBatch /\ [][Next]_vars

\* The same worker with its idle polling never cut short: empty polls go on
\* for as long as nothing is pending (the run counter saturates at RunCap).
\* The worker is never starved, and the deployment does mount the model
\* files in the end, so that no wait of the worker lasts for ever.
InitLive == InitWith({1}, SoloUploads, SoloFaults, PollIntervals, RunCap + 1,
                     DefaultOutputs, {"ok"}, DefaultClips, {ValidRequest})

SpecLive ==
    /\ InitLive /\ [][Next]_vars
    /\ \A w \in Workers : WF_vars(WorkerStep(w))
    /\ WF_vars(MountArtifacts)

\* ===================================================================== claims

\* C1. Claim exclusivity: no task is ever returned by the claim to two
\* workers; every task that has left pending was claimed by exactly one
\* worker; two workers never hold the same task, so with a single pending
\* task one worker obtains it and the others obtain none.
ClaimExclusivity ==
    /\ \A t \in TaskIds :
         /\ Cardinality(claimers[t]) <= 1
         /\ tasks[t].status \in {"processing", "done", "error"}
               => Cardinality(claimers[t]) = 1
    /\ \A w1, w2 \in Workers :
         (w1 # w2 /\ cur[w1] # NoTask) => cur[w1] # cur[w2]

\* Two workers polled while one task was pending: one holds it, the other
\* was told there is none.
ClaimRaceWitness ==
    \E w1, w2 \in Workers :
        /\ w1 # w2
        /\ cur[w1] # NoTask
        /\ claimers[cur[w1]] = {w1}
        /\ \A t \in TaskIds : t # cur[w1] => tasks[t].status = "absent"
        /\ lastClaim[w2] = "empty"
        /\ pc[w2] = "sleep"

\* The status changes of the lifecycle pending -> processing -> done | error
\* (absent: the document is not inserted yet).
StatusStep(a, b) ==
    \/ a = b
    \/ <<a, b>> \in {<<"absent", "pending">>, <<"pending", "processing">>,
                     <<"processing", "done">>, <<"processing", "error">>}

\* C2. A task's status is always one of pending, processing, done, error
\* (absent: not inserted yet); it only moves pending -> processing ->
\* done | error, so done and error are written only over processing; and a
\* task document in done or error is never written again.
TaskLifecycle ==
    /\ [](\A t \in TaskIds :
            tasks[t].status \in {"absent", "pending", "processing", "done", "error"})
    /\ [][\A t \in TaskIds :
            /\ StatusStep(tasks[t].status, tasks'[t].status)
            /\ tasks[t].status \in {"done", "error"} => tasks'[t] = tasks[t]]_vars

\* A task that ended in error was offered to a later poll of another worker,
\* which left it alone.
TaskLifecycleWitness ==
    \E t \in TaskIds, w \in Workers :
        /\ tasks[t].status = "error"
        /\ claimers[t] # {}
        /\ w \notin claimers[t]
        /\ lastClaim[w] = "empty"

\* C3. Every task in done has its classification entry carrying the
\* predicted label and confidence, written exactly once.
DoneHasResult ==
    \A t \in TaskIds :
        tasks[t].status = "done" =>
            /\ cls[t].present
            /\ cls[t].classification = tasks[t].predicted_genre
            /\ cls[t].classification # "pending"
            /\ clsWrites[t] = 1

\* C4. A task in error has no classification result written by a worker.
ErrorLeavesNoResult ==
    \A t \in TaskIds : tasks[t].status = "error" => clsWrites[t] = 0

\* C5. Whenever the except clause at the task boundary has run, the task is
\* in error with a message, process_one has returned False and process_loop
\* is in its idle branch on the way to the next tick.
TaskFailureContained ==
    [][\A w \in Workers :
          (pc[w] = "fail" /\ pc'[w] # "fail") =>
              /\ tasks'[cur[w]].status = "error"
              /\ tasks'[cur[w]].error_message # "none"
              /\ lastRet'[w] = "false"
              /\ pc'[w] = "sleep"]_vars

\* C6. No exception leaves process_one (the claim's errors are caught, so
\* only the error write could let one out).
MarkErrorNeverRaises ==
    \A w \in Workers : lastRet[w] # "raised"

\* C7. main has no failure exit: it never ends on an exception, and it has
\* returned only if the stop flag is set.
NoFailureExit ==
    \A w \in Workers :
        /\ pc[w] # "crashed"
        /\ pc[w] = "exited" => stop[w]

\* An exception left process_loop, main's except clause ran, and main is
\* back at its while test with the stop flag set.
NoFailureExitWitness ==
    \E w \in Workers :
        /\ pc[w] = "main"
        /\ lastRet[w] = "raised"
        /\ backoff[w] > InitBackoffS
        /\ stop[w]

\* C8. A claim that raises makes process_one return False: the worker goes
\* to its idle branch, nothing reaches main, no task document changes.
ClaimErrorContained ==
    [][\A w \in Workers :
          (pc[w] = "loop" /\ pc'[w] # "loop" /\ lastClaim'[w] = "raised") =>
              /\ lastRet'[w] = "false"
              /\ pc'[w] = "sleep"
              /\ tasks' = tasks]_vars

\* The claim raised while a task was pending, and the task is still pending.
ClaimErrorWitness ==
    \E w \in Workers :
        /\ lastClaim[w] = "raised"
        /\ lastRet[w] = "false"
        /\ pc[w] = "sleep"
        /\ \E t \in TaskIds : tasks[t].status = "pending"

\* C9. A poll that finds no pending task returns False and changes neither
\* the tasks, nor the classifications, nor the blobs.
EmptyPollChangesNothing ==
    [][\A w \in Workers :
          (/\ pc[w] = "loop" /\ ~stop[w] /\ pc'[w] # "loop"
           /\ \A t \in TaskIds : tasks[t].status # "pending") =>
              /\ lastRet'[w] = "false"
              /\ pc'[w] = "sleep"
              /\ UNCHANGED <<tasks, cls, blobs>>]_vars

\* An empty poll with finished tasks in the collection and room for more.
EmptyPollWitness ==
    \E w \in Workers :
        /\ lastClaim[w] = "empty"
        /\ lastRet[w] = "false"
        /\ pc[w] = "sleep"
        /\ \E t \in TaskIds : tasks[t].status \in {"done", "error"}
        /\ \E t \in TaskIds : tasks[t].status = "absent"

\* C10. In a run of consecutive idle ticks the k-th sleep is
\* min(poll_interval * min(k, 10), 5.0 s); idle_ticks stays in 0..10; the
\* sleeps of a run never decrease and never exceed 5.0 s.
IdleBackoff ==
    \A w \in Workers :
        /\ idle[w] \in 0..10
        /\ idle[w] = Min(run[w], 10)
        /\ run[w] > 0 => lastSleep[w] = Min(poll * Min(run[w], 10), 5000)
        /\ lastSleep[w] <= 5000
        /\ prevSleep[w] <= lastSleep[w]

\* An idle run longer than the counter's cap, where the counter (not the
\* 5.0 s maximum) is what stopped the growth.
IdleBackoffWitness ==
    \E w \in Workers :
        /\ run[w] > 10
        /\ poll = 250
        /\ prevSleep[w] = 2500
        /\ lastSleep[w] = 2500

\* C11. A successfully processed task resets the idle backoff: the loop goes
\* to its next claim without sleeping, with idle_ticks 0, and the first idle
\* sleep after the success lasts min(poll_interval, 5.0 s) however long the
\* worker had been idle before.
IdleResetAfterSuccess ==
    [][\A w \in Workers :
          /\ (lastRet[w] # "true" /\ lastRet'[w] = "true") =>
                 (pc'[w] = "loop" /\ idle'[w] = 0)
          /\ (lastRet[w] = "true" /\ pc'[w] = "sleep") =>
                 (idle'[w] = 1 /\ lastSleep'[w] = Min(poll, MaxSleepMs))]_vars

\* A task was processed right after an idle sleep at the 5.0 s maximum with
\* a poll interval of 0.5 s, and the next claim is due with idle_ticks 0.
IdleResetWitness ==
    \E w \in Workers :
        /\ lastRet[w] = "true"
        /\ pc[w] = "loop"
        /\ idle[w] = 0
        /\ poll = 500
        /\ lastSleep[w] = MaxSleepMs

\* C12. Shutdown never takes effect mid-task: when a worker has exited,
\* every task it claimed is in done or error and none is left in processing.
ShutdownBetweenTasks ==
    \A w \in Workers :
        pc[w] = "exited" =>
            \A t \in TaskIds :
                w \in claimers[t] => tasks[t].status \in {"done", "error"}

\* C13. Once the stop flag is set the worker eventually exits, from every
\* state it can be in.
StopLeadsToExit ==
    \A w \in Workers : stop[w] ~> (pc[w] = "exited")

\* C14. The idle sleep is cancellable by the stop flag: when the flag is set
\* while the loop sleeps, the sleep ends there, without waiting for the rest
\* of its interval.
SleepCancellable ==
    [][\A w \in Workers :
          (pc[w] = "sleep" /\ ~stop[w] /\ stop'[w]) => pc'[w] # "sleep"]_vars

\* C15. Store reconnect backoff in main: backoff_seconds stays within
\* [1, 10]; a connectivity failure that ends an established connection is
\* the first of its run and waits 1 s; every further failure of the run
\* waits twice the wait before it, up to 10 s; and process_loop is entered
\* from a successful (re)connection with backoff_seconds back at 1.  (The
\* wait of a failure is the value of backoff_seconds when it is handled.)
ReconnectBackoff ==
    /\ [](\A w \in Workers : backoff[w] \in InitBackoffS..MaxBackoffS)
    /\ [][\A w \in Workers :
            /\ (client[w] /\ ~client'[w] /\ pc'[w] = "main") =>
                   (backoff[w] = InitBackoffS /\ backoff'[w] = 2 * InitBackoffS)
            /\ (pc'[w] = "main" /\ backoff'[w] # backoff[w]) =>
                   backoff'[w] = Min(2 * backoff[w], MaxBackoffS)
            /\ (~client[w] /\ client'[w] /\ pc'[w] = "loop") =>
                   backoff'[w] = InitBackoffS
            /\ (pc[w] = "loading" /\ pc'[w] = "loop") =>
                   backoff'[w] = InitBackoffS]_vars

\* C16. After a connectivity exception raised by a store operation of the
\* worker (the claim, the result write, the done write, the error write) the
\* worker discards its client and is back in main to connect again before
\* its next claim; and it never polls without a client.
ReconnectAfterStoreError ==
    /\ [](\A w \in Workers : pc[w] \in {"loop", "sleep"} => client[w])
    /\ [][\A w \in Workers :
            /\ (lastClaim[w] # "raised" /\ lastClaim'[w] = "raised") =>
                   (pc'[w] = "main" /\ ~client'[w])
            /\ (pc[w] = "fail" /\ err[w] \in {"StoreError", "store"}
                    /\ pc'[w] # "fail") =>
                   (pc'[w] = "main" /\ ~client'[w])]_vars

\* C17. ensure_model_loaded never raises: from a failed load it stays in its
\* loop, the backoff starts at 1 s when it is called, each failed load
\* doubles it up to 30 s, and it returns into process_loop only with both
\* the model and the label encoder loaded.
ModelLoadRetries ==
    /\ [](\A w \in Workers : mlBackoff[w] \in InitBackoffS..MaxModelBackoffS)
    /\ [][\A w \in Workers :
            /\ (pc[w] # "loading" /\ pc'[w] = "loading") =>
                   mlBackoff'[w] = InitBackoffS
            /\ pc[w] = "loading" =>
                   /\ pc'[w] \in {"loading", "loop"}
                   /\ pc'[w] = "loop" => loaded'[w] = "both"
                   /\ (pc'[w] = "loading" /\ mlBackoff'[w] # mlBackoff[w]) =>
                          mlBackoff'[w] = Min(2 * mlBackoff[w], MaxModelBackoffS)]_vars

\* The files arrived after enough failed loads for the backoff to be at its
\* 30 s cap, then the label encoder failed to load: the model alone is set
\* and ensure_model_loaded is still retrying.
ModelLoadWitness ==
    \E w \in Workers :
        /\ pc[w] = "loading"
        /\ artifacts
        /\ loaded[w] = "model"
        /\ mlBackoff[w] = MaxModelBackoffS

\* C18. ensure_model_loaded returns the loaded (model, label_encoder) pair
\* to its caller, also when a first load attempt failed.
LoadReturnsPair ==
    \A w \in Workers : loadRet[w] \in {"pending", "pair"}

\* C19. The artifact is loaded once per process: once model and
\* label_encoder are both set no load pass runs again (not in the
\* ensure_model_loaded call after a reconnect either) and no step of the
\* running process changes them.
LoadedOnce ==
    /\ [](\A w \in Workers : pc[w] = "loading" => loaded[w] # "both")
    /\ [][\A w \in Workers :
            loaded[w] = "both" => (loaded'[w] = "both" \/ pc'[w] = "exited")]_vars

\* A worker with both globals set lost its connection to an error write that
\* raised (the only exception of the run), connected again (backoff_seconds is back at 1, which only the
\* return of ensure_model_loaded does) and is polling.
LoadedOnceWitness ==
    \E w \in Workers :
        /\ pc[w] = "loop"
        /\ loaded[w] = "both"
        /\ client[w]
        /\ backoff[w] = InitBackoffS
        /\ cur[w] = NoTask
        /\ faults = SoloFaults - 1
        /\ \E t \in TaskIds : w \in claimers[t] /\ tasks[t].status = "processing"

\* C20. Trained-model decision: with a probability row the predicted class
\* is the one of the largest probability, the first such class on a tie, and
\* the confidence is that probability; when predict_proba fails the class is
\* the hard prediction and the confidence exactly 1.0.
TrainedModelDecision ==
    \A w \in Workers :
        res[w] # NoResult =>
            IF out[w].proba # NoProba
            THEN \E i \in 1..Len(out[w].proba) :
                    /\ res[w].label = Classes[i]
                    /\ res[w].confidence = out[w].proba[i]
                    /\ \A j \in 1..Len(out[w].proba) : out[w].proba[j] <= out[w].proba[i]
                    /\ \A j \in 1..(i - 1) : out[w].proba[j] < out[w].proba[i]
            ELSE /\ res[w].label = Classes[out[w].hard]
                 /\ res[w].confidence = 100

\* A tie between the two classes was decided for the first one, although
\* the hard prediction of the model is the second.
TrainedModelDecisionWitness ==
    \E w \in Workers :
        /\ pc[w] = "finish"
        /\ out[w] = [proba |-> <<50, 50>>, hard |-> 2]
        /\ res[w].label = Classes[1]
        /\ res[w].confidence = 50

\* C21. When the label encoder cannot decode the predicted class,
\* process_one takes the raw predicted token as the label and completes the
\* task: it goes on to the result and done writes, and when they succeed
\* the task is in done under that token and process_one returns True.
LabelDecodeFallback ==
    /\ [](encoder = "bad" =>
             \A t \in TaskIds :
                 tasks[t].status = "done" =>
                     \E i \in 1..Len(Classes) : tasks[t].predicted_genre = Classes[i])
    /\ [][\A w \in Workers :
            /\ (encoder = "bad" /\ pc[w] = "work" /\ out'[w] \notin {NoOutput, Refusal}) =>
                   (pc'[w] = "finish" /\ res'[w].genre = res'[w].label)
            /\ (encoder = "bad" /\ pc[w] = "finish" /\ pc'[w] # "finish"
                    /\ faults' = faults) =>
                   (lastRet'[w] = "true" /\ tasks'[cur[w]].status = "done")]_vars

\* With an encoder that cannot decode, a task was completed under the raw
\* token of its class and process_one returned True.
LabelDecodeFallbackWitness ==
    /\ encoder = "bad"
    /\ \E w \in Workers, t \in TaskIds :
          /\ lastRet[w] = "true"
          /\ claimers[t] = {w}
          /\ tasks[t].status = "done"
          /\ tasks[t].predicted_genre = Classes[2]
          /\ cls[t].classification = Classes[2]

\* C22. A malformed feature vector is rejected with InvalidFeatureVector
\* before any scoring: the model is never asked about it, and its task
\* never ends in done but in error, with that error unless the store or a
\* missing handle failed the task first.
MalformedVectorRejected ==
    /\ \A w \in Workers :
          (cur[w] # NoTask /\ blobs[cur[w]] = "malformed") => out[w] = NoOutput
    /\ \A t \in TaskIds :
          blobs[t] = "malformed" =>
              /\ tasks[t].status # "done"
              /\ tasks[t].status = "error" =>
                     tasks[t].error_message \in
                         {"InvalidFeatureVector", "StoreError", "AttributeError"}

\* C23. process_one returns True exactly when it claimed a task and left it
\* in done; it returns False when there was no pending task, when the claim
\* raised, and when the claimed task ended in error.
ReturnValue ==
    [][\A w \in Workers :
          /\ (lastRet[w] # "true" /\ lastRet'[w] = "true") =>
                 (cur[w] # NoTask /\ w \in claimers[cur[w]]
                    /\ tasks[cur[w]].status = "processing"
                    /\ tasks'[cur[w]].status = "done")
          /\ \A t \in TaskIds :
                 (w \in claimers[t] /\ tasks[t].status # "done"
                    /\ tasks'[t].status = "done") => lastRet'[w] = "true"
          /\ \A t \in TaskIds :
                 (w \in claimers[t] /\ tasks[t].status # "error"
                    /\ tasks'[t].status = "error") => lastRet'[w] = "false"
          /\ (lastClaim[w] = "none" /\ lastClaim'[w] \in {"empty", "raised"}) =>
                 lastRet'[w] = "false"]_vars

\* A claimed task ended in error and process_one returned False.
ReturnValueWitness ==
    \E w \in Workers, t \in TaskIds :
        /\ claimers[t] = {w}
        /\ tasks[t].status = "error"
        /\ lastClaim[w] = "task"
        /\ lastRet[w] = "false"

\* An /api/stats response gives each percentage as its count over the total
\* times 100, to the nearest hundredth, and 0 when the total is 0.
NearestHundredth(pct, count, total) ==
    IF total > 0
    THEN /\ 2 * (pct * total - count * 10000) <= total
         /\ 2 * (count * 10000 - pct * total) <= total
    ELSE pct = 0

\* C24. Every /api/stats response has total = rock + hiphop, and
\* rock_percentage and hiphop_percentage equal to round(count / total * 100,
\* 2) when total > 0 and to 0 when total = 0, whatever uploads, recordings
\* and worker completions made of the classifications collection.
StatsAddUp ==
    stats # NoStats =>
        /\ stats.total = stats.rock + stats.hiphop
        /\ NearestHundredth(stats.rock_percentage, stats.rock, stats.total)
        /\ NearestHundredth(stats.hiphop_percentage, stats.hiphop, stats.total)

\* C25. Database handle lifecycle.  While nothing is closed the cached
\* Database stays the same object, get_database returns it, and no second
\* client is created; close_database closes the cached client and clears
\* both handles; the Database cached after that is a new object that
\* belongs to a client that is not closed.
HandleLifecycle ==
    /\ [](/\ webClient \notin closed
          /\ webDb # NoDb => (webDb.of = webClient /\ webClient # 0)
          /\ made <= Cardinality(closed) + 1)
    /\ [][/\ dbs' # dbs => webDb = NoDb
          /\ dbRet' # dbRet =>
                 (dbRet' = webDb'.id /\ (webDb # NoDb => dbRet' = webDb.id))
          /\ (closed' = closed /\ webDb # NoDb) =>
                 (webDb' = webDb /\ webClient' = webClient /\ made' = made)
          /\ made' # made => (webClient = 0 /\ made' = made + 1 /\ webClient' = made')
          /\ closed' # closed =>
                 /\ webClient # 0
                 /\ closed' = closed \cup {webClient}
                 /\ webClient' = 0
                 /\ webDb' = NoDb
          /\ (webDb = NoDb /\ webDb' # NoDb) =>
                 /\ webDb'.id > dbs
                 /\ webDb'.of = webClient'
                 /\ \A c \in closed : webClient' > c]_vars

\* get_database returned one Database, close_database closed its client,
\* and the next get_database returned another Database of a second client.
HandleLifecycleWitness ==
    /\ closed = {1}
    /\ webClient = 2
    /\ webDb = [id |-> 2, of |-> 2]
    /\ dbRet = 2

\* A request the endpoints answer with 400: no "audio" part, an empty
\* filename, or a name without one of the allowed extensions.
Answered400(r) ==
    \/ ~r.part
    \/ r.filename = <<"">>
    \/ Len(r.filename) < 2
    \/ r.filename[Len(r.filename)] \notin
           {"wav", "WAV", "mp3", "MP3", "m4a", "ogg", "flac"}

\* C26. A request rejected with 400 creates nothing: no blob, no task and
\* no classification entry exist for it, and the step that rejects it
\* leaves the three collections as they were.
RejectCreatesNothing ==
    /\ [](\A t \in TaskIds :
             (upPc[t] = "rejected" \/ Answered400(req[t])) =>
                 (blobs[t] = "absent" /\ tasks[t] = NoDoc /\ cls[t] = NoCls))
    /\ [][\A t \in TaskIds :
             (upPc[t] # "rejected" /\ upPc'[t] = "rejected") =>
                 (Answered400(req[t]) /\ UNCHANGED storeVars)]_vars

\* A request carrying notes.txt was rejected.
RejectWitness ==
    \E t \in TaskIds :
        /\ upPc[t] = "rejected"
        /\ req[t] = [part |-> TRUE, filename |-> <<"notes", "txt">>]

\* C27. Every task a worker moved to processing reaches done or error
\* unless that worker stops running, whatever store write fails on the way.
ProcessingEnds ==
    \A t \in TaskIds :
        (tasks[t].status = "processing") ~>
            \/ tasks[t].status \in {"done", "error"}
            \/ \A w \in claimers[t] : pc[w] \in {"exited", "crashed"}

\* C28. A task that ended in error counts as an idle tick: idle_ticks goes
\* up by one (to at most 10) instead of being reset, and process_loop sleeps
\* min(poll_interval * idle_ticks, 5.0 s) before its next claim, whether or
\* not pending tasks are waiting; within one call of process_loop only a
\* task that ended in done brings the counter back to 0.
ErrorIsIdleTick ==
    [][\A w \in Workers :
          /\ \A t \in TaskIds :
                 (w \in claimers[t] /\ tasks[t].status # "error"
                    /\ tasks'[t].status = "error") =>
                     /\ idle'[w] = Min(idle[w] + 1, IdleTicksCap)
                     /\ lastSleep'[w] = Min(poll * idle'[w], MaxSleepMs)
                     /\ pc'[w] = "sleep"
          /\ pc[w] = "sleep" => (cur'[w] = cur[w] /\ lastClaim'[w] \in {lastClaim[w], "none"})
          /\ (pc[w] \in {"loop", "sleep", "work", "finish", "fail"}
                /\ pc'[w] \in {"loop", "sleep", "work", "finish", "fail"}
                /\ idle[w] > 0 /\ idle'[w] = 0) =>
                 (cur[w] # NoTask /\ tasks'[cur[w]].status = "done")]_vars

\* After an empty poll one of two waiting tasks was claimed and ended in
\* error: the worker sleeps twice the poll interval with idle_ticks 2 while
\* the other task is still pending.
ErrorIsIdleTickWitness ==
    \E w \in Workers, t, u \in TaskIds :
        /\ claimers[t] = {w}
        /\ tasks[t].status = "error"
        /\ lastRet[w] = "false"
        /\ tasks[u].status = "pending"
        /\ pc[w] = "sleep"
        /\ idle[w] = 2
        /\ poll = 1000
        /\ lastSleep[w] = 2000

\* C29. process_loop runs only in a fully initialised process: the client
\* is set (its ping succeeded), the database and GridFS handles are set, and
\* the model and the label encoder are loaded, whatever failed before.
LoopFullyInitialised ==
    \A w \in Workers :
        pc[w] \in {"loop", "sleep", "work", "finish", "fail"} =>
            /\ client[w]
            /\ handles[w] = "both"
            /\ loaded[w] = "both"

\* C30. One process_one call changes at most one task, the one it claimed:
\* a call holds one task from its claim to its return, every write to a
\* task document made while a worker runs goes to the task that worker
\* holds, no step changes two task documents, and no task document is ever
\* removed.
OnlyClaimedTaskChanges ==
    [][/\ Cardinality({t \in TaskIds : tasks'[t] # tasks[t]}) <= 1
       /\ \A t \in TaskIds :
            /\ tasks[t] # NoDoc => tasks'[t].status # "absent"
            /\ (tasks[t] # NoDoc /\ tasks'[t] # tasks[t]) =>
                   \E w \in Workers :
                       /\ w \in claimers'[t]
                       /\ t \in {cur[w], cur'[w]}
                       /\ \A u \in TaskIds \ {t} : tasks'[u] = tasks[u]
       /\ \A w \in Workers :
            (cur[w] # NoTask /\ cur'[w] # cur[w]) => cur'[w] = NoTask]_vars

\* A worker completed one of two tasks and returned True while the other
\* task is as the upload left it.
OnlyClaimedTaskWitness ==
    \E w \in Workers, t, u \in TaskIds :
        /\ t > u
        /\ claimers[t] = {w}
        /\ claimers[u] = {}
        /\ tasks[t].status = "done"
        /\ lastRet[w] = "true"
        /\ tasks[u] = PendingDoc

====
